---------------------------- MODULE Spec2Model ----------------------------
(***************************************************************************)
(* lazy-rules (src/index.js): image file names -> CSS rules.               *)
(*                                                                         *)
(* A JavaScript string is a sequence of one-character strings.  The text   *)
(* written to the stylesheet is a sequence of tokens: a character, a       *)
(* literal chunk of a template, or a number (the value that the template   *)
(* converts to text: a quotient in lowest terms, Infinity or NaN).         *)
(***************************************************************************)
EXTENDS Integers, Sequences, FiniteSets, TLC

VARIABLES
    fs,          \* the image files on disk that the glob matches, in glob order
    watch,       \* opts.watch
    pc,          \* "init" before handler is called, "ready" after
    runs,        \* the processImages promise chains in flight, in start order
    stylesheet,  \* the stylesheet file: [exists, text]
    log,         \* the logger's messages, oldest first
    changes,     \* number of file changes the watcher has reported
    last         \* the chain that settled last: its paths, the objects built, its outcome

vars == <<fs, watch, pc, runs, stylesheet, log, changes, last>>

---------------------------------------------------------------------------
(* Bounds *)

MaxStem == 3
MaxFiles == 3
MaxChanges == 2

---------------------------------------------------------------------------
(* Characters and strings *)

Digits == {"0", "1", "2", "3", "4", "5", "6", "7", "8", "9"}

Lower == {"a", "b", "c", "d", "e", "f", "g", "h", "i", "j", "k", "l", "m",
          "n", "o", "p", "q", "r", "s", "t", "u", "v", "w", "x", "y", "z"}

Upper == {"A", "B", "C", "D", "E", "F", "G", "H", "I", "J", "K", "L", "M",
          "N", "O", "P", "Q", "R", "S", "T", "U", "V", "W", "X", "Y", "Z"}

Letters == Lower \cup Upper

toLowerCase(c) ==
    CASE c = "A" -> "a" [] c = "B" -> "b" [] c = "C" -> "c" [] c = "D" -> "d"
      [] c = "E" -> "e" [] c = "F" -> "f" [] c = "G" -> "g" [] c = "H" -> "h"
      [] c = "I" -> "i" [] c = "J" -> "j" [] c = "K" -> "k" [] c = "L" -> "l"
      [] c = "M" -> "m" [] c = "N" -> "n" [] c = "O" -> "o" [] c = "P" -> "p"
      [] c = "Q" -> "q" [] c = "R" -> "r" [] c = "S" -> "s" [] c = "T" -> "t"
      [] c = "U" -> "u" [] c = "V" -> "v" [] c = "W" -> "w" [] c = "X" -> "x"
      [] c = "Y" -> "y" [] c = "Z" -> "z" [] OTHER -> c

\* parseInt(c, 10) of one decimal digit.
parseInt(c) ==
    CASE c = "0" -> 0 [] c = "1" -> 1 [] c = "2" -> 2 [] c = "3" -> 3
      [] c = "4" -> 4 [] c = "5" -> 5 [] c = "6" -> 6 [] c = "7" -> 7
      [] c = "8" -> 8 [] c = "9" -> 9

\* s.slice(i - 1): the characters of s from position i on.
Tail_(s, i) == SubSeq(s, i, Len(s))

\* Positions of character c in s.
IndexesOf(s, c) == {i \in 1..Len(s) : s[i] = c}

Max(S) == CHOOSE x \in S : \A y \in S : y <= x

Min(S) == CHOOSE x \in S : \A y \in S : x <= y

\* path.basename(file): the text after the last "/".
basename(file) ==
    IF IndexesOf(file, "/") = {} THEN file
    ELSE Tail_(file, Max(IndexesOf(file, "/")) + 1)

\* path.dirname(file): the text before the last "/" ("." without one).
dirname(file) ==
    IF IndexesOf(file, "/") = {} THEN <<".">>
    ELSE SubSeq(file, 1, Max(IndexesOf(file, "/")) - 1)

---------------------------------------------------------------------------
(* Filename parsing: getRatio, getSelector *)

\* /@(\d)x\.[a-z]{3,4}$/gi matches file with an extension of k letters.
RatioMatches(file, k) ==
    LET n == Len(file) IN
    /\ n >= k + 4
    /\ \A i \in (n - k + 1)..n : file[i] \in Letters
    /\ file[n - k] = "."
    /\ file[n - k - 1] \in {"x", "X"}
    /\ file[n - k - 2] \in Digits
    /\ file[n - k - 3] = "@"

\* A getRatio whose pattern takes extensions of two letters as well.
getRatio_shortExt(file) ==
    IF \E k \in {2, 3, 4} : RatioMatches(file, k)
    THEN LET k == CHOOSE k \in {2, 3, 4} : RatioMatches(file, k)
         IN  parseInt(file[Len(file) - k - 2])
    ELSE 1

getRatio(file) ==
    IF \E k \in {3, 4} : RatioMatches(file, k)
    THEN LET k == CHOOSE k \in {3, 4} : RatioMatches(file, k)
         IN  parseInt(file[Len(file) - k - 2])
    ELSE 1

\* /(@\d+x)?\..+$/gi matches name from position i: a dot with at least one
\* character after it, or "@", digits, "x" and then such a dot.
DotAt(name, i) == i < Len(name) /\ name[i] = "."

StripMatchesAt(name, i) ==
    \/ DotAt(name, i)
    \/ /\ name[i] = "@"
       /\ \E j \in (i + 2)..Len(name) :
            /\ \A d \in (i + 1)..(j - 1) : name[d] \in Digits
            /\ name[j] \in {"x", "X"}
            /\ DotAt(name, j + 1)

\* name.replace(/(@\d+x)?\..+$/gi, ''): the leftmost match runs to the end.
StripSuffix(name) ==
    LET at == {i \in 1..Len(name) : StripMatchesAt(name, i)} IN
    IF at = {} THEN name ELSE SubSeq(name, 1, Min(at) - 1)

\* name.split('_').pop(): the text after the last underscore.
SplitPop(name) ==
    IF IndexesOf(name, "_") = {} THEN name
    ELSE Tail_(name, Max(IndexesOf(name, "_")) + 1)

\* s.replace(pat, ''), pat a string: the first occurrence of pat is removed.
ReplaceFirst(s, pat) ==
    LET n  == Len(pat)
        at == {i \in 1..(Len(s) - n + 1) : SubSeq(s, i, i + n - 1) = pat}
    IN  IF n = 0 \/ at = {} THEN s
        ELSE SubSeq(s, 1, Min(at) - 1) \o Tail_(s, Min(at) + n)

\* lodash words() on ASCII letters, digits and separators: a word ends where
\* a letter meets a digit, where a lower-case letter meets an upper-case one,
\* and before the last letter of an upper-case run that a lower-case letter
\* follows; any other character separates words.
IsWordChar(c) == c \in Letters \cup Digits

WordBreak(s, i) ==
    \/ s[i] \in Letters /\ s[i + 1] \in Digits
    \/ s[i] \in Digits /\ s[i + 1] \in Letters
    \/ s[i] \in Lower /\ s[i + 1] \in Upper
    \/ /\ s[i] \in Upper /\ s[i + 1] \in Upper
       /\ i + 2 <= Len(s) /\ s[i + 2] \in Lower

RECURSIVE Words(_, _, _)
\* The words of s from position i on; cur is the word being read.
Words(s, i, cur) ==
    LET flush == IF cur = <<>> THEN <<>> ELSE <<cur>> IN
    IF i > Len(s) THEN flush
    ELSE IF ~IsWordChar(s[i]) THEN flush \o Words(s, i + 1, <<>>)
    ELSE IF i < Len(s) /\ IsWordChar(s[i + 1]) /\ WordBreak(s, i)
         THEN <<Append(cur, s[i])>> \o Words(s, i + 1, <<>>)
    ELSE Words(s, i + 1, Append(cur, s[i]))

RECURSIVE JoinWith(_, _)
\* parts.join(sep)
JoinWith(parts, sep) ==
    IF parts = <<>> THEN <<>>
    ELSE IF Len(parts) = 1 THEN parts[1]
    ELSE parts[1] \o sep \o JoinWith(Tail(parts), sep)

\* lodash kebabCase: the words in lower case, joined by hyphens.
kebabCase(name) ==
    LET ws == Words(name, 1, <<>>)
        lc == [i \in 1..Len(ws) |-> [j \in 1..Len(ws[i]) |-> toLowerCase(ws[i][j])]]
    IN  JoinWith(lc, <<"-">>)

\* The template literal of getSelector for base and pseudo.
SelectorTemplate(base, pseudo) ==
    <<".">> \o base \o <<"-">> \o pseudo \o <<",", "\n">>
    \o <<"a", ":">> \o pseudo \o <<" ", ".">> \o base \o <<",", "\n">>
    \o <<"b", "u", "t", "t", "o", "n", ":">> \o pseudo \o <<" ", ".">> \o base \o <<",", "\n">>
    \o <<"a", ".">> \o pseudo \o <<" ", ".">> \o base \o <<",", "\n">>
    \o <<"b", "u", "t", "t", "o", "n", ".">> \o pseudo \o <<" ", ".">> \o base \o <<",", "\n">>
    \o <<".">> \o base \o <<".">> \o pseudo

getSelector(file) ==
    LET name   == StripSuffix(basename(file))
        under  == IndexesOf(name, "_") # {}
        pseudo == SplitPop(name)
        base   == ReplaceFirst(name, pseudo)
    IN  IF under /\ base # <<>> /\ pseudo # <<>>
        THEN SelectorTemplate(base, pseudo)
        ELSE <<".">> \o kebabCase(name)

RECURSIVE SplitOn(_, _)
\* s.split(c)
SplitOn(s, c) ==
    IF IndexesOf(s, c) = {} THEN <<s>>
    ELSE LET i == Min(IndexesOf(s, c))
         IN  <<SubSeq(s, 1, i - 1)>> \o SplitOn(Tail_(s, i + 1), c)

RECURSIVE CommonPrefix(_, _)
\* Number of leading path segments that a and b share.
CommonPrefix(a, b) ==
    IF a = <<>> \/ b = <<>> \/ a[1] # b[1] THEN 0
    ELSE 1 + CommonPrefix(Tail(a), Tail(b))

\* path.relative(from, to) for relative POSIX paths below one directory.
relative(from, to) ==
    LET a  == SplitOn(from, "/")
        b  == SplitOn(to, "/")
        n  == CommonPrefix(a, b)
        up == [i \in 1..(Len(a) - n) |-> <<".", ".">>]
    IN  JoinWith(up \o Tail_(b, n + 1), <<"/">>)

\* slash(path): backslashes become forward slashes.
slash(path) == [i \in 1..Len(path) |-> IF path[i] = "\\" THEN "/" ELSE path[i]]

---------------------------------------------------------------------------
(* The text of the stylesheet *)

Ch(c) == [k |-> "chr", v |-> c, n |-> 0, d |-> 1]

Lit(text) == [k |-> "lit", v |-> text, n |-> 0, d |-> 1]

Chars(str) == [i \in 1..Len(str) |-> Ch(str[i])]

NL == Ch("\n")

TAB == Ch("\t")

RECURSIVE GCD(_, _)
GCD(a, b) == IF b = 0 THEN a ELSE GCD(b, a % b)

\* ${a / b} of two non-negative integers: the quotient in lowest terms,
\* Infinity for a positive number over zero, NaN for zero over zero.
Quotient(a, b) ==
    IF b = 0
    THEN [k |-> "num", v |-> IF a = 0 THEN "NaN" ELSE "Infinity", n |-> 0, d |-> 0]
    ELSE [k |-> "num", v |-> "", n |-> a \div GCD(a, b), d |-> b \div GCD(a, b)]

\* ${i} of an integer.
Number(i) == [k |-> "num", v |-> "", n |-> i, d |-> 1]

RuleOpen == Lit(" { background: url(")

RuleSize == Lit(") no-repeat 0 0; background-size: 100% 100%; width: ")

RuleHeight == Lit("px; height: ")

RuleClose == Lit("px; display: inline-block; vertical-align: middle; font-size: 0; }")

MediaOpen == Lit("@media (-webkit-min-device-pixel-ratio: ")

MediaResolution == Lit("), (min-resolution: ")

MediaBrace == Lit("dpi) {")

BlockClose == Ch("}")

DpiPerRatio == 96

---------------------------------------------------------------------------
(* prepareImages, compileCSS *)

StylesheetPath == <<"c", "/", "s", ".", "c", "s", "s">>

ImagesDir == <<"i", "/">>

\* sizeOf(image) on disk: the file's size, or a failure when the file is
\* gone or cannot be probed.
NoSize == [ok |-> FALSE, width |-> 0, height |-> 0]

Size(w, h) == [ok |-> TRUE, width |-> w, height |-> h]

sizeOf(disk, image) ==
    IF \E i \in 1..Len(disk) : disk[i].path = image
    THEN disk[CHOOSE i \in 1..Len(disk) : disk[i].path = image].size
    ELSE NoSize

\* The object that the map callback of prepareImages returns for one path.
Image(disk, image, sheet) ==
    [url      |-> slash(relative(dirname(sheet), image)),
     size     |-> sizeOf(disk, image),
     ratio    |-> getRatio(image),
     selector |-> getSelector(image)]

RECURSIVE InsertByRatio_unstable(_, _)
\* x put before the elements of equal ratio.
InsertByRatio_unstable(s, x) ==
    IF s = <<>> THEN <<x>>
    ELSE IF s[1].ratio < x.ratio THEN <<s[1]>> \o InsertByRatio_unstable(Tail(s), x)
    ELSE <<x>> \o s

RECURSIVE InsertByRatio(_, _)
\* x put into the ratio-sorted sequence s after every element that is not larger.
InsertByRatio(s, x) ==
    IF s = <<>> THEN <<x>>
    ELSE IF s[1].ratio <= x.ratio THEN <<s[1]>> \o InsertByRatio(Tail(s), x)
    ELSE <<x>> \o s

RECURSIVE sortBy(_)
\* lodash sortBy(images, 'ratio'): a stable sort.
sortBy(images) ==
    IF images = <<>> THEN <<>>
    ELSE InsertByRatio(sortBy(SubSeq(images, 1, Len(images) - 1)), images[Len(images)])

\* lodash groupBy(images, 'ratio'): an object with one property per ratio,
\* holding the images of that ratio in their order.
groupBy(images) ==
    [r \in {images[i].ratio : i \in 1..Len(images)} |->
        SelectSeq(images, LAMBDA im : im.ratio = r)]

\* What prepareImages gives: it throws when sizeOf throws for some image;
\* images are the objects that its map callback has built by then.
prepareImages(disk, images, sheet) ==
    LET objs == [i \in 1..Len(images) |-> Image(disk, images[i], sheet)]
        bad  == {i \in 1..Len(objs) : ~objs[i].size.ok}
    IN  IF bad # {}
        THEN [threw |-> TRUE, file |-> images[Min(bad)],
              images |-> SubSeq(objs, 1, Min(bad) - 1), groups |-> groupBy(<<>>)]
        ELSE [threw |-> FALSE, file |-> <<>>,
              images |-> objs, groups |-> groupBy(sortBy(objs))]

\* The template literal of one rule.
Rule(image) ==
    Chars(image.selector) \o <<RuleOpen>> \o Chars(image.url) \o <<RuleSize>>
    \o <<Quotient(image.size.width, image.ratio)>> \o <<RuleHeight>>
    \o <<Quotient(image.size.height, image.ratio)>> \o <<RuleClose>>

\* A condition that wraps every group but that of ratio 0.
Wraps_all(ratio) == ratio > 0

\* The condition under which compileCSS wraps a group.
Wraps(ratio) == ratio > 1

compileCSS(images, ratio) ==
    LET rules == JoinWith([i \in 1..Len(images) |-> Rule(images[i])], <<NL>>) IN
    IF Wraps(ratio)
    THEN <<MediaOpen, Number(ratio), MediaResolution, Number(ratio * DpiPerRatio),
           MediaBrace, NL, TAB>> \o rules \o <<NL, BlockClose>>
    ELSE rules

RECURSIVE Ascending(_)
\* The integer-like property names of an object, in the order JavaScript
\* enumerates them.
Ascending(S) ==
    IF S = {} THEN <<>> ELSE <<Min(S)>> \o Ascending(S \ {Min(S)})

\* lodash map(groups, compileCSS) and groups.join('\n\n').
Compile(groups) ==
    LET keys == Ascending(DOMAIN groups) IN
    JoinWith([i \in 1..Len(keys) |-> compileCSS(groups[keys[i]], keys[i])], <<NL, NL>>)

---------------------------------------------------------------------------
(* Inputs *)

StemChars == {"a", "B", "_"}

Stems == UNION {[1..n -> StemChars] : n \in 0..MaxStem}

Suffixes ==
    {<<>>, <<"@", "2", "x">>, <<"@", "0", "x">>, <<"@", "3", "x">>,
     <<"@", "1", "2", "x">>, <<"@", "2", "X">>}

Exts ==
    {<<>>, <<".", "p", "n", "g">>, <<".", "j", "p", "e", "g">>, <<".", "j", "s">>,
     <<".", "P", "N", "G">>, <<".", "m", "p", "4">>}

File(name, size) == [path |-> ImagesDir \o name, size |-> size]

\* One file of any name the three parts make, 50 by 25 pixels.
SingleFiles ==
    {File(st \o su \o ex, Size(50, 25)) : st \in Stems, su \in Suffixes, ex \in Exts}
    \ {File(<<>>, Size(50, 25))}

Png == <<".", "p", "n", "g">>

\* The files that batches of several are made of: plain and high-density
\* variants, a pseudo-state name, a name that is only a density suffix, a
\* density of zero, a file that cannot be probed and an image of no pixels.
BatchFiles ==
    {File(<<"a">> \o Png, Size(25, 25)),
     File(<<"a", "@", "2", "x">> \o Png, Size(50, 50)),
     File(<<"B", "_", "a", "@", "2", "x">> \o Png, Size(50, 25)),
     File(<<"B", "@", "3", "x">> \o Png, Size(50, 25)),
     File(<<"@", "2", "x">> \o Png, Size(50, 50)),
     File(<<"a", "@", "0", "x">> \o Png, Size(25, 25)),
     File(<<"_", "a">> \o Png, NoSize),
     File(<<"B">> \o Png, Size(0, 0))}

WatchFiles ==
    {File(<<"a">> \o Png, Size(25, 25)),
     File(<<"a", "@", "2", "x">> \o Png, Size(50, 50)),
     File(<<"B", "_", "a", "@", "2", "x">> \o Png, Size(50, 25))}

\* The sequences of at most n different elements of S.
Lists(S, n) ==
    {l \in UNION {[1..k -> S] : k \in 0..n} :
        \A i, j \in 1..Len(l) : i # j => l[i] # l[j]}

Paths(disk) == [i \in 1..Len(disk) |-> disk[i].path]

---------------------------------------------------------------------------
(* handler, processImages *)

NoRun == [settled |-> FALSE, threw |-> FALSE, paths |-> <<>>, images |-> <<>>]

InitWith(disks, w) ==
    /\ fs \in disks
    /\ watch = w
    /\ pc = "init"
    /\ runs = <<>>
    /\ stylesheet = [exists |-> FALSE, text |-> <<>>]
    /\ log = <<>>
    /\ changes = 0
    /\ last = NoRun

\* processImages up to the call of globby: a promise chain is in flight.
processImages == Append(runs, [pc |-> "glob", paths |-> <<>>])

\* handler: one call of processImages, or with --watch one call per
\* callback of watchTree, the first when the tree has been walked.
handler ==
    /\ pc = "init"
    /\ pc' = "ready"
    /\ runs' = processImages
    /\ UNCHANGED <<fs, watch, stylesheet, log, changes, last>>

\* A file appears or disappears and the watcher calls back.
Change ==
    /\ pc = "ready"
    /\ watch
    /\ changes < MaxChanges
    /\ \/ \E f \in WatchFiles :
            /\ \A i \in 1..Len(fs) : fs[i] # f
            /\ Len(fs) < MaxFiles
            /\ fs' = Append(fs, f)
       \/ \E i \in 1..Len(fs) :
            fs' = SubSeq(fs, 1, i - 1) \o Tail_(fs, i + 1)
    /\ changes' = changes + 1
    /\ runs' = processImages
    /\ UNCHANGED <<watch, pc, stylesheet, log, last>>

\* globby reads the directory: the chain has its path list.
Glob ==
    \E r \in 1..Len(runs) :
        /\ runs[r].pc = "glob"
        /\ runs' = [runs EXCEPT ![r] = [pc |-> "then", paths |-> Paths(fs)]]
        /\ UNCHANGED <<fs, watch, pc, stylesheet, log, changes, last>>

\* The then-callbacks of one chain run to the end: prepareImages,
\* compileCSS, outputFileSync and logger.info, or logger.error from catch.
Settle ==
    \E r \in 1..Len(runs) :
        /\ runs[r].pc = "then"
        /\ LET paths    == runs[r].paths
               prepared == prepareImages(fs, paths, StylesheetPath)
           IN  /\ IF prepared.threw
                  THEN /\ log' = Append(log, [level |-> "error", file |-> prepared.file])
                       /\ UNCHANGED stylesheet
                  ELSE /\ stylesheet' = [exists |-> TRUE, text |-> Compile(prepared.groups)]
                       /\ log' = Append(log, [level |-> "info", file |-> StylesheetPath])
               /\ last' = [settled |-> TRUE,
                           threw   |-> prepared.threw,
                           paths   |-> paths,
                           images  |-> prepared.images]
        /\ runs' = SubSeq(runs, 1, r - 1) \o Tail_(runs, r + 1)
        /\ UNCHANGED <<fs, watch, pc, changes>>

Init == InitWith(Lists(WatchFiles, MaxFiles), TRUE)

Next == handler \/ Change \/ Glob \/ Settle

Spec == Init /\ [][Next]_vars

\* One run without --watch, over one file of any name or a batch of files.
InitOnce ==
    InitWith({<<f>> : f \in SingleFiles} \cup Lists(BatchFiles, MaxFiles), FALSE)

NextOnce == handler \/ Glob \/ Settle

SpecOnce == InitOnce /\ [][NextOnce]_vars

---------------------------------------------------------------------------
(* Reading the stylesheet text back *)

\* The positions of the rules of text: each rule has one RuleOpen.
RulePos(text) == {p \in 1..Len(text) : text[p] = RuleOpen}

\* The position of the RuleSize chunk of the rule at p.
SizePos(text, p) == Min({q \in (p + 1)..Len(text) : text[q] = RuleSize})

\* The url, width and height that the rule at p states.
UrlAt(text, p) == [i \in 1..(SizePos(text, p) - p - 1) |-> text[p + i].v]

WidthAt(text, p) == text[SizePos(text, p) + 1]

HeightAt(text, p) == text[SizePos(text, p) + 3]

\* The positions of the rules for url.
RulesFor(text, url) == {p \in RulePos(text) : UrlAt(text, p) = url}

\* The urls of the rules in the order of the text.
UrlsOf(text) ==
    LET ps == Ascending(RulePos(text)) IN [i \in 1..Len(ps) |-> UrlAt(text, ps[i])]

\* The media-query headers that are open at position p.
HeadersAt(text, p) ==
    {q \in 1..(p - 1) :
        /\ text[q] = MediaOpen
        /\ \A m \in q..p : text[m] # BlockClose}

\* The ratios of the media-query headers in the order of the text.
HeaderRatios(text) ==
    LET qs == Ascending({q \in 1..Len(text) : text[q] = MediaOpen})
    IN  [i \in 1..Len(qs) |-> text[qs[i] + 1]]

Finished == last.settled /\ ~last.threw

Written == stylesheet.text

---------------------------------------------------------------------------
(* Claims *)

\* The url that prepareImages gives the image at path.
UrlOf(path) == slash(relative(dirname(StylesheetPath), path))

\* logger.error has reported a failure for path.
Reported(path) ==
    \E m \in 1..Len(log) : log[m].level = "error" /\ log[m].file = path

\* path.extname: the text from the last dot of the base name on, when that
\* dot is not its first character.
Stem(path) ==
    LET name == basename(path)
        dots == IndexesOf(name, ".") \ {1}
    IN  IF dots = {} THEN name ELSE SubSeq(name, 1, Max(dots) - 1)

\* str ends with "@", one decimal digit and one of the characters xs.
EndsWithDensity(str, xs) ==
    /\ Len(str) >= 3
    /\ str[Len(str) - 2] = "@"
    /\ str[Len(str) - 1] \in Digits
    /\ str[Len(str)] \in xs

\* The text after the last dot of path, when it is three or four letters.
HasLetterExt(path) ==
    \E k \in {3, 4} :
        /\ Len(path) > k
        /\ path[Len(path) - k] = "."
        /\ \A i \in (Len(path) - k + 1)..Len(path) : path[i] \in Letters

\* The text of path before its last dot.
BeforeLastDot(path) == SubSeq(path, 1, Max(IndexesOf(path, ".")) - 1)

\* The six clauses of C1 for base and state.
ClaimedClauses(base, state) ==
    <<<<".">> \o base \o <<"-">> \o state,
      <<"a", ":">> \o state \o <<" ", ".">> \o base,
      <<"b", "u", "t", "t", "o", "n", ":">> \o state \o <<" ", ".">> \o base,
      <<"a", ".">> \o state \o <<" ", ".">> \o base,
      <<"b", "u", "t", "t", "o", "n", ".">> \o state \o <<" ", ".">> \o base,
      <<".">> \o base \o <<".">> \o state>>

TrimLeft(str) == IF str # <<>> /\ str[1] \in {" ", "\n"} THEN Tail(str) ELSE str

ClausesOf(selector) ==
    LET parts == SplitOn(selector, ",") IN [i \in 1..Len(parts) |-> TrimLeft(parts[i])]

\* C1: for a name that, without extension and density suffix, is
\* base_state, base the text before its last underscore and state the text
\* after it, neither empty, the selector is the six clauses .base-state,
\* a:state .base, button:state .base, a.state .base, button.state .base,
\* .base.state, in this order.
C1_SixClauses ==
    \A i \in 1..Len(last.images) :
        LET name  == StripSuffix(basename(last.paths[i]))
            under == IndexesOf(name, "_")
        IN  (under # {} /\ Max(under) \notin {1, Len(name)}) =>
                ClausesOf(last.images[i].selector) =
                    ClaimedClauses(SubSeq(name, 1, Max(under) - 1),
                                   Tail_(name, Max(under) + 1))

\* C2 as stated: the ratio is d for every path with an extension whose base
\* name before the extension ends with "@", one decimal digit d and "x",
\* whatever the extension, and 1 for every path whose base name before the
\* extension does not end with "@", a digit and "x" or "X".
C2_RatioAnyExtension ==
    \A i \in 1..Len(last.images) :
        LET st == Stem(last.paths[i]) IN
        IF EndsWithDensity(st, {"x"})
        THEN st # basename(last.paths[i]) =>
                last.images[i].ratio = parseInt(st[Len(st) - 1])
        ELSE ~EndsWithDensity(st, {"X"}) => last.images[i].ratio = 1

\* C2 amended: the ratio is d for every path that ends with "@", one
\* decimal digit d, "x" or "X", a dot and three or four letters, and 1 for
\* every other path.
C2_RatioLetterExtension ==
    \A i \in 1..Len(last.images) :
        LET path == last.paths[i] IN
        last.images[i].ratio =
            IF HasLetterExt(path) /\ EndsWithDensity(BeforeLastDot(path), {"x", "X"})
            THEN parseInt(path[Max(IndexesOf(path, ".")) - 2])
            ELSE 1

\* A run has built the object of a "@3x" image with an extension of four
\* letters, and its ratio is 3.
C2_Witness ==
    /\ Finished
    /\ \E i \in 1..Len(last.images) :
        /\ last.images[i].ratio = 3
        /\ Tail_(last.paths[i], Len(last.paths[i]) - 7) =
                <<"@", "3", "x", ".", "j", "p", "e", "g">>

\* C3: a rule of the stylesheet is inside a media query exactly when the
\* ratio of its image is greater than 1, and the query of ratio r reads
\* @media (-webkit-min-device-pixel-ratio: r), (min-resolution: (r*96)dpi).
C3_WrappedIffHighDensity ==
    Finished =>
        \A i \in 1..Len(last.images) :
            LET im == last.images[i]
                ps == RulesFor(Written, im.url)
            IN  /\ ps # {}
                /\ \A p \in ps :
                    LET hs == HeadersAt(Written, p) IN
                    /\ hs # {} <=> im.ratio > 1
                    /\ \A q \in hs :
                        /\ Written[q + 1] = Number(im.ratio)
                        /\ Written[q + 2] = MediaResolution
                        /\ Written[q + 3] = Number(im.ratio * 96)
                        /\ Written[q + 4] = MediaBrace
                        /\ Written[q + 5] = NL

\* A stylesheet with a rule outside and a rule inside a media query.
C3_Witness ==
    /\ Finished
    /\ \E i, j \in 1..Len(last.images) :
        /\ last.images[i].ratio = 1
        /\ last.images[j].ratio > 1
        /\ \E p \in RulesFor(Written, last.images[j].url) : HeadersAt(Written, p) # {}
        /\ \E p \in RulesFor(Written, last.images[i].url) : HeadersAt(Written, p) = {}

IsQuotient(t, raw, ratio) ==
    t.k = "num" /\ t.v = "" /\ t.d > 0 /\ t.n * ratio = raw * t.d

\* C5: the width and the height that a rule states are the width and the
\* height of the image divided by its ratio, without rounding.
C5_ScaledExactly ==
    Finished =>
        \A i \in 1..Len(last.images) :
            LET im == last.images[i] IN
            \A p \in RulesFor(Written, im.url) :
                /\ IsQuotient(WidthAt(Written, p), im.size.width, im.ratio)
                /\ IsQuotient(HeightAt(Written, p), im.size.height, im.ratio)

\* C5 for the images of ratio 1 and more.
ScaledExactlyFromOne ==
    Finished =>
        \A i \in 1..Len(last.images) :
            LET im == last.images[i] IN
            im.ratio >= 1 =>
                /\ RulesFor(Written, im.url) # {}
                /\ \A p \in RulesFor(Written, im.url) :
                    /\ IsQuotient(WidthAt(Written, p), im.size.width, im.ratio)
                    /\ IsQuotient(HeightAt(Written, p), im.size.height, im.ratio)

\* The size of the image at path is missing, zero or negative.
BadSize(path) ==
    LET size == sizeOf(fs, path) IN ~size.ok \/ size.width <= 0 \/ size.height <= 0

\* C6: when a run over several images has settled, an image whose size is
\* missing, zero or negative has no rule and its failure is reported, and
\* every other image of the run has its rule in the stylesheet.
C6_BadSizeIsLocal ==
    (last.settled /\ Len(last.paths) > 1) =>
        \A i \in 1..Len(last.paths) :
            LET path == last.paths[i] IN
            IF BadSize(path)
            THEN RulesFor(Written, UrlOf(path)) = {} /\ Reported(path)
            ELSE RulesFor(Written, UrlOf(path)) # {}

\* C7: when a run has settled, a path whose name is empty without extension
\* and density suffix is reported and has no rule, and the other images of
\* a run that wrote the stylesheet have their rules.
C7_EmptyBaseIsReported ==
    last.settled =>
        \A i \in 1..Len(last.paths) :
            LET path == last.paths[i] IN
            IF StripSuffix(basename(path)) = <<>>
            THEN RulesFor(Written, UrlOf(path)) = {} /\ Reported(path)
            ELSE Finished => RulesFor(Written, UrlOf(path)) # {}

\* C8: the ratio of every object that prepareImages builds is 1 or more.
C8_RatioPositive ==
    \A i \in 1..Len(last.images) : last.images[i].ratio >= 1

\* C9: inside a media query every line that starts a rule starts with a tab.
C9_EveryRuleIndented ==
    Finished =>
        LET lines == SplitOn(Written, NL)
            header(h) == lines[h] # <<>> /\ lines[h][1] = MediaOpen
            inBlock(l) ==
                \E h \in 1..(l - 1) :
                    header(h) /\ \A m \in (h + 1)..l : lines[m] # <<BlockClose>>
            startsRule(l) ==
                \/ header(l - 1)
                \/ lines[l - 1] # <<>> /\ lines[l - 1][Len(lines[l - 1])] = RuleClose
        IN  \A l \in 2..Len(lines) :
                (inBlock(l) /\ startsRule(l)) => (lines[l] # <<>> /\ lines[l][1] = TAB)

\* C10: with --watch, when the handler has run and no chain is in flight,
\* the stylesheet is the output for the files that are on disk, those of
\* the last change.
C10_LastChangeWins ==
    (watch /\ pc = "ready" /\ runs = <<>>) =>
        /\ stylesheet.exists
        /\ Written = Compile(prepareImages(fs, Paths(fs), StylesheetPath).groups)

===========================================================================
